---- MODULE Spec2Model ----
(***************************************************************************)
(* Todo application: the todos table, the three server actions of          *)
(* actions/todos.ts (addTodo, toggleTodo, deleteTodo), the cached list     *)
(* view rendered by TodoList, and the client components TodoItem and       *)
(* AddTodoForm that call the server actions.                               *)
(*                                                                         *)
(* Every "await" of a server action is a suspension point: statements of   *)
(* different calls interleave at the database one statement at a time.     *)
(* A database statement may be rejected (storage failure).                 *)
(*                                                                         *)
(* The source holds two TodoItem components: one with useTransition, whose *)
(* controls are disabled while isPending, and one with useOptimistic only, *)
(* whose controls are never disabled. A behaviour runs with either.        *)
(*                                                                         *)
(* One client view is followed (its list, its pending actions, its         *)
(* optimistic values); other clients only call the server actions.         *)
(***************************************************************************)
EXTENDS Integers, Sequences, FiniteSets, TLC

\* ---------------------------------------------------------------- bounds
MaxCalls == 2        \* server-action calls made in one behaviour
MaxClock == 2        \* the database clock runs from 0 to MaxClock

CallIds == 1..MaxCalls

\* The table a behaviour starts from: empty, as created, or the two rows left
\* by addTodo("a") at clock 0, addTodo("a b") at clock 1 and a toggleTodo of
\* the second.
InitRows ==
    {[id |-> 1, text |-> <<"a">>, completed |-> FALSE, createdAt |-> 0],
     [id |-> 2, text |-> <<"a", " ", "b">>, completed |-> TRUE, createdAt |-> 1]}

InitStores == {{}, InitRows}

\* every id the serial can have handed out, and the next one
Ids == 1..(Cardinality(InitRows) + MaxCalls + 1)

\* The texts a caller submits, as sequences of characters: empty, blank,
\* plain, and padded with a space inside.
Texts == {<<>>, <<" ">>, <<"a">>, <<" ", "a", " ", "b", " ">>}

\* ------------------------------------------------ String.prototype.trim
\* the space stands for every character trim() strips
IsSpace(ch) == ch = " "

RECURSIVE TrimStart(_)
TrimStart(s) ==
    IF s = <<>> THEN <<>>
    ELSE IF IsSpace(Head(s)) THEN TrimStart(Tail(s)) ELSE s

RECURSIVE TrimEnd(_)
TrimEnd(s) ==
    IF s = <<>> THEN <<>>
    ELSE IF IsSpace(s[Len(s)]) THEN TrimEnd(SubSeq(s, 1, Len(s) - 1)) ELSE s

Trim(s) == TrimEnd(TrimStart(s))

\* `!text.trim()`: the empty string is falsy
IsBlank(text) == Trim(text) = <<>>

\* ----------------------------------------------------------------- state
VARIABLES
    store,       \* the todos table: a set of rows
    nextId,      \* the serial sequence behind todos.id
    now,         \* the database clock behind created_at's defaultNow(), as last read
    calls,       \* server-action calls, in order of invocation
    cache,       \* the cached render of TodoList for path '/'
    stale,       \* revalidatePath('/') was called since the cache was filled
    variant,     \* which TodoItem component the build holds
    rendered,    \* the todo list the client view was last given
    ver,         \* per item id: update statements that changed the row so far
    inflight,    \* per item id: the view's calls not yet answered
    optimistic,  \* per item id: the value set by setOptimisticCompleted, as a set
    formPending, \* AddTodoForm's isPending
    input        \* the text in AddTodoForm's input field

vars == <<store, nextId, now, calls, ver, cache, stale, variant, rendered,
          inflight, optimistic, formPending, input>>

viewVars == <<variant, rendered, inflight, optimistic, formPending, input>>

\* ---------------------------------------------------------- db/schema.ts
\* id serial primary key, text not null, completed default false,
\* created_at default now()
\* an id counted from the rows the table holds, in place of the serial
NewRowCountedId(values, t) ==
    [id |-> Cardinality(store) + 1, text |-> values.text, completed |-> FALSE,
     createdAt |-> t]

NewRow(values, t) ==
    [id |-> nextId, text |-> values.text, completed |-> FALSE, createdAt |-> t]

StoreIds == {r.id : r \in store}

\* ------------------------------------------------------- TodoList query
\* findMany({ orderBy: [desc(todos.createdAt)] }): every sequence that holds
\* each row once and is descending in createdAt. The statement names no
\* second sort key, so rows of equal createdAt come in any order.
Range(s) == {s[i] : i \in 1..Len(s)}

RECURSIVE Perms(_)
Perms(S) ==
    IF S = {} THEN {<<>>}
    ELSE UNION {{<<r>> \o p : p \in Perms(S \ {r})} : r \in S}

DescCreatedAt(s) ==
    \A i \in 1..Len(s) : \A j \in 1..Len(s) :
        i < j => s[i].createdAt >= s[j].createdAt

FindManyResults == {s \in Perms(store) : DescCreatedAt(s)}

\* ------------------------------------------------------ actions/todos.ts
\* A call of a server action. pc is the statement the call has issued and is
\* waiting for ("insert", "findFirst", "update", "delete"), or "revalidate"
\* when the statement has returned and revalidatePath is next, or "done", or
\* "failed" when the call threw (err says what). todo is the result of
\* findFirst, as a set: empty when no row matched. stmts and signals count the
\* statements issued and the revalidatePath calls made. rowCount is the number
\* of rows the call's insert, update or delete changed. readVer, writeVer,
\* after and awaiting are bookkeeping: ver[id] when findFirst ran, ver[id] and
\* the row's completed (as a set) after this call's update, whether the view
\* that made the call still waits for its answer, the todo.completed the view
\* held when it made the call (as a set), and whether the view was given a new
\* list since.
NewCall(op, id, text, pc, err, stmts, awaiting) ==
    [op |-> op, id |-> id, text |-> text, pc |-> pc, err |-> err,
     todo |-> {}, stmts |-> stmts, signals |-> 0, readVer |-> 0,
     writeVer |-> 0, after |-> {}, rowCount |-> 0, awaiting |-> awaiting,
     props |-> {}, refreshed |-> FALSE]

CanCall == Len(calls) < MaxCalls

Running == {c \in 1..Len(calls) : calls[c].pc \notin {"done", "failed"}}

\* addTodo, up to its first await: `if (!text.trim()) throw`, else the insert
\* is issued.
\* the test without the trim
AddTodoValidatesUntrimmed(text) == text # <<>>

AddTodoValidates(text) == ~IsBlank(text)

\* the values without the trim
AddTodoValuesUntrimmed(text) == [text |-> text]

AddTodoValues(text) == [text |-> Trim(text)]

AddTodoEnter(text, awaiting) ==
    IF AddTodoValidates(text)
    THEN NewCall("addTodo", 0, text, "insert", "none", 1, awaiting)
    ELSE NewCall("addTodo", 0, text, "failed", "ValidationError", 0, awaiting)

\* toggleTodo, up to its first await: findFirst is issued.
\* a toggleTodo that issues its update at once, with no findFirst before it
ToggleTodoEnterUpdateOnly(id, awaiting) ==
    NewCall("toggleTodo", id, <<>>, "update", "none", 1, awaiting)

ToggleTodoEnter(id, awaiting) ==
    NewCall("toggleTodo", id, <<>>, "findFirst", "none", 1, awaiting)

\* deleteTodo, up to its await: the delete is issued.
DeleteTodoEnter(id, awaiting) ==
    NewCall("deleteTodo", id, <<>>, "delete", "none", 1, awaiting)

StorageFailure(c) ==
    /\ calls' = [calls EXCEPT ![c].pc = "failed", ![c].err = "StorageError"]
    /\ UNCHANGED <<store, nextId, now, ver, cache, stale>>

\* db.insert(todos).values({ text: text.trim() }), at a clock value that is
\* the one of the insert before or a later one
InsertRow(values, t) == store \cup {NewRow(values, t)}

AddTodoInsert(c) ==
    /\ c \in 1..Len(calls)
    /\ calls[c].op = "addTodo"
    /\ calls[c].pc = "insert"
    /\ \E ok \in BOOLEAN :
        IF ok
        THEN /\ \E t \in now..MaxClock :
                    /\ now' = t
                    /\ store' = InsertRow(AddTodoValues(calls[c].text), t)
             /\ nextId' = nextId + 1
             /\ calls' = [calls EXCEPT ![c].pc = "revalidate", ![c].rowCount = 1]
             /\ UNCHANGED <<ver, cache, stale>>
        ELSE StorageFailure(c)
    /\ UNCHANGED viewVars

\* db.query.todos.findFirst({ where: eq(todos.id, id) }); `if (!todo) throw`;
\* else the update is issued.
FindFirst(id) == {r \in store : r.id = id}

\* toggleTodo without the test of findFirst's result
ToggleTodoNeverMissing(todo) == FALSE

ToggleTodoMissing(todo) == todo = {}

ToggleTodoFindFirst(c) ==
    /\ c \in 1..Len(calls)
    /\ calls[c].op = "toggleTodo"
    /\ calls[c].pc = "findFirst"
    /\ \E ok \in BOOLEAN :
        IF ok
        THEN LET todo == FindFirst(calls[c].id)
             IN  /\ calls' = IF ToggleTodoMissing(todo)
                             THEN [calls EXCEPT ![c].pc = "failed",
                                                ![c].err = "NotFoundError"]
                             ELSE [calls EXCEPT ![c].pc = "update",
                                                ![c].todo = todo,
                                                ![c].stmts = @ + 1,
                                                ![c].readVer = ver[calls[c].id]]
                 /\ UNCHANGED <<store, nextId, now, ver, cache, stale>>
        ELSE StorageFailure(c)
    /\ UNCHANGED viewVars

\* db.update(todos).set({ completed: !todo.completed }).where(eq(todos.id, id))
\* .set({ completed: true })
ToggleTodoSetTrue(todo) == [completed |-> TRUE]

ToggleTodoSet(todo) == [completed |-> \A r \in todo : ~r.completed]

\* SET completed = NOT completed: the flip done by the statement itself
UpdateRowsFlip(id, set) ==
    {IF r.id = id THEN [r EXCEPT !.completed = ~r.completed] ELSE r : r \in store}

\* the update without its where clause
UpdateRowsAll(id, set) ==
    {[r EXCEPT !.completed = set.completed] : r \in store}

UpdateRows(id, set) ==
    {IF r.id = id THEN [r EXCEPT !.completed = set.completed] ELSE r : r \in store}

\* the row that findFirst gave written back whole (a save of the object),
\* in place of an update of the rows with the id
ToggleTodoUpdateSave(c) ==
    /\ c \in 1..Len(calls)
    /\ calls[c].op = "toggleTodo"
    /\ calls[c].pc = "update"
    /\ LET id == calls[c].id
           set == ToggleTodoSet(calls[c].todo)
           new == {r \in store : r.id # id}
                      \cup {[r EXCEPT !.completed = set.completed] : r \in calls[c].todo}
       IN  /\ store' = new
           /\ ver' = [ver EXCEPT ![id] = @ + 1]
           /\ calls' = [calls EXCEPT ![c].pc = "revalidate",
                                     ![c].writeVer = ver[id] + 1,
                                     ![c].rowCount = 1,
                                     ![c].after = {set.completed}]
           /\ UNCHANGED <<nextId, now, cache, stale>>
    /\ UNCHANGED viewVars

ToggleTodoUpdate(c) ==
    /\ c \in 1..Len(calls)
    /\ calls[c].op = "toggleTodo"
    /\ calls[c].pc = "update"
    /\ \E ok \in BOOLEAN :
        IF ok
        THEN LET id == calls[c].id
                 new == UpdateRows(id, ToggleTodoSet(calls[c].todo))
                 newVer == IF id \in StoreIds THEN ver[id] + 1 ELSE ver[id]
             IN  /\ store' = new
                 /\ ver' = [ver EXCEPT ![id] = newVer]
                 /\ calls' = [calls EXCEPT ![c].pc = "revalidate",
                                           ![c].writeVer = newVer,
                                           ![c].rowCount = Cardinality(FindFirst(id)),
                                           ![c].after = {r.completed : r \in {x \in new : x.id = id}}]
                 /\ UNCHANGED <<nextId, now, cache, stale>>
        ELSE StorageFailure(c)
    /\ UNCHANGED viewVars

\* db.delete(todos).where(eq(todos.id, id))
\* the delete with its condition negated
DeleteRowsOthers(id) == {r \in store : r.id = id}

DeleteRows(id) == {r \in store : r.id # id}

DeleteTodoDelete(c) ==
    /\ c \in 1..Len(calls)
    /\ calls[c].op = "deleteTodo"
    /\ calls[c].pc = "delete"
    /\ \E ok \in BOOLEAN :
        IF ok
        THEN /\ store' = DeleteRows(calls[c].id)
             /\ calls' = [calls EXCEPT ![c].pc = "revalidate",
                                       ![c].rowCount = Cardinality(store \ store')]
             /\ UNCHANGED <<nextId, now, ver, cache, stale>>
        ELSE StorageFailure(c)
    /\ UNCHANGED viewVars

\* revalidatePath('/'), the last statement of each of the three actions
\* an action that returns without revalidatePath
RevalidatePathSkipped(flag) == flag

RevalidatePath(flag) == TRUE

Revalidate(c) ==
    /\ c \in 1..Len(calls)
    /\ calls[c].pc = "revalidate"
    /\ stale' = RevalidatePath(stale)
    /\ calls' = [calls EXCEPT ![c].pc = "done", ![c].signals = @ + 1]
    /\ UNCHANGED <<store, nextId, now, ver, cache>>
    /\ UNCHANGED viewVars

\* Server actions are public endpoints: another client calls them with any
\* argument.
OtherAddTodo ==
    /\ CanCall
    /\ \E text \in Texts : calls' = Append(calls, AddTodoEnter(text, FALSE))
    /\ UNCHANGED <<store, nextId, now, ver, cache, stale>>
    /\ UNCHANGED viewVars

OtherToggleTodo ==
    /\ CanCall
    /\ \E id \in 1..nextId : calls' = Append(calls, ToggleTodoEnter(id, FALSE))
    /\ UNCHANGED <<store, nextId, now, ver, cache, stale>>
    /\ UNCHANGED viewVars

OtherDeleteTodo ==
    /\ CanCall
    /\ \E id \in 1..nextId : calls' = Append(calls, DeleteTodoEnter(id, FALSE))
    /\ UNCHANGED <<store, nextId, now, ver, cache, stale>>
    /\ UNCHANGED viewVars

\* ------------------------------------------------- the list view of '/'
\* The page is rendered from the cache unless revalidatePath marked it stale;
\* a stale page is rendered anew by TodoList's query and cached.
\* a page served from the cache whatever revalidatePath marked
RenderPageFromCache(result) ==
    /\ result = cache
    /\ UNCHANGED <<cache, stale>>

RenderPage(result) ==
    IF stale
    THEN /\ result \in FindManyResults
         /\ cache' = result
         /\ stale' = FALSE
    ELSE /\ result = cache
         /\ UNCHANGED <<cache, stale>>

RenderedIds == {rendered[i].id : i \in 1..Len(rendered)}

RenderedTodo(id) == CHOOSE r \in Range(rendered) : r.id = id

\* ------------------------------------------------------------- TodoItem
\* useOptimistic(todo.completed, (_, newState) => newState): the value set by
\* setOptimisticCompleted while an action of the item is pending, else
\* todo.completed.
OptimisticCompleted(id) ==
    IF optimistic[id] # {}
    THEN CHOOSE b \in optimistic[id] : TRUE
    ELSE RenderedTodo(id).completed

\* useTransition's isPending
IsPending(id) == inflight[id] > 0

\* disabled={isPending} on the checkbox and on the delete button; the
\* TodoItem without useTransition renders both controls without `disabled`.
Disabled(id) == variant = "useTransition" /\ IsPending(id)

HandleToggle(id) ==
    /\ CanCall
    /\ id \in RenderedIds
    /\ ~Disabled(id)
    /\ optimistic' = [optimistic EXCEPT ![id] = {~OptimisticCompleted(id)}]
    /\ inflight' = [inflight EXCEPT ![id] = @ + 1]
    /\ calls' = Append(calls, [ToggleTodoEnter(id, TRUE) EXCEPT
                                  !.props = {RenderedTodo(id).completed}])
    /\ UNCHANGED <<store, nextId, now, ver, cache, stale>>
    /\ UNCHANGED <<variant, rendered, formPending, input>>

HandleDelete(id) ==
    /\ CanCall
    /\ id \in RenderedIds
    /\ ~Disabled(id)
    /\ inflight' = [inflight EXCEPT ![id] = @ + 1]
    /\ calls' = Append(calls, [DeleteTodoEnter(id, TRUE) EXCEPT
                                  !.props = {RenderedTodo(id).completed}])
    /\ UNCHANGED <<store, nextId, now, ver, cache, stale>>
    /\ UNCHANGED <<variant, rendered, optimistic, formPending, input>>

\* ---------------------------------------------------------- AddTodoForm
\* `if (!text.trim()) return`; the input and the button are disabled while
\* isPending. isPending is the state of useOptimistic(false), and what the
\* component names startTransition is its setter: given the async function,
\* React runs it as the state's updater (once in a production build), which
\* resets the form and calls addTodo(text); the state holds the function's
\* promise, which is truthy, until the action ends.
\* The user types into the input field, which takes no text while disabled.
TypeText(text) ==
    /\ CanCall
    /\ ~formPending
    /\ text # input
    /\ input' = text
    /\ UNCHANGED <<store, nextId, now, calls, ver, cache, stale>>
    /\ UNCHANGED <<variant, rendered, inflight, optimistic, formPending>>

\* formRef.current?.reset(): the field goes back to its default value, which
\* is empty
\* a form that is not reset
FormResetSkipped(text) == text

FormReset(text) == <<>>

\* formData.get('text') is the text of the input field.
HandleSubmit(text) ==
    /\ CanCall
    /\ ~formPending
    /\ text = input
    /\ ~IsBlank(text)
    /\ input' = FormReset(text)
    /\ formPending' = TRUE
    /\ calls' = Append(calls, AddTodoEnter(text, TRUE))
    /\ UNCHANGED <<store, nextId, now, ver, cache, stale>>
    /\ UNCHANGED <<variant, rendered, inflight, optimistic>>

\* When the last pending action of an item ends, useOptimistic drops the
\* optimistic value and gives todo.completed again.
\* a plain useState in place of useOptimistic: the value stays
SettledOptimisticKept(id) == optimistic[id]

SettledOptimistic(id) == IF inflight[id] = 1 THEN {} ELSE optimistic[id]

\* The answer of a server action reaches the view that called it. A call
\* that returned carries the page rendered after its revalidatePath; a call
\* that threw carries no page. The item's pending action ends.
Settle(c) ==
    /\ c \in 1..Len(calls)
    /\ calls[c].awaiting
    /\ calls[c].pc \in {"done", "failed"}
    /\ IF calls[c].pc = "done"
       THEN /\ \E result \in FindManyResults \cup {cache} :
                   /\ RenderPage(result)
                   /\ rendered' = result
            /\ calls' = [d \in 1..Len(calls) |->
                            IF d = c THEN [calls[d] EXCEPT !.awaiting = FALSE]
                            ELSE IF calls[d].awaiting
                                 THEN [calls[d] EXCEPT !.refreshed = TRUE]
                                 ELSE calls[d]]
       ELSE /\ calls' = [calls EXCEPT ![c].awaiting = FALSE]
            /\ UNCHANGED <<cache, stale, rendered>>
    /\ IF calls[c].op = "addTodo"
       THEN /\ formPending' = FALSE
            /\ UNCHANGED <<inflight, optimistic>>
       ELSE /\ inflight' = [inflight EXCEPT ![calls[c].id] = @ - 1]
            /\ optimistic' = [optimistic EXCEPT ![calls[c].id] =
                                  SettledOptimistic(calls[c].id)]
            /\ UNCHANGED formPending
    /\ UNCHANGED <<store, nextId, now, ver, variant, input>>

\* The user loads (or reloads) the page: a new view, which waits for no
\* earlier call and whose form is empty.
LoadPage ==
    /\ \E result \in FindManyResults \cup {cache} :
           /\ RenderPage(result)
           /\ rendered' = result
    /\ calls' = [c \in 1..Len(calls) |->
                    IF calls[c].awaiting
                    THEN [calls[c] EXCEPT !.awaiting = FALSE, !.refreshed = TRUE]
                    ELSE calls[c]]
    /\ inflight' = [id \in Ids |-> 0]
    /\ optimistic' = [id \in Ids |-> {}]
    /\ formPending' = FALSE
    /\ input' = <<>>
    /\ UNCHANGED <<store, nextId, now, ver, variant>>

\* -------------------------------------------------------- specification
\* The view holds the list of the cache, or the list it was given before the
\* toggleTodo of the second row.
BeforeToggle(list) ==
    [i \in 1..Len(list) |-> [list[i] EXCEPT !.completed = FALSE]]

Init ==
    /\ store \in InitStores
    /\ nextId = Cardinality(store) + 1
    /\ now = IF store = {} THEN 0 ELSE 1
    /\ calls = <<>>
    /\ ver = [id \in Ids |-> 0]
    /\ cache \in FindManyResults
    /\ stale = FALSE
    /\ variant \in {"useTransition", "useOptimisticOnly"}
    /\ rendered \in {cache, BeforeToggle(cache)}
    /\ inflight = [id \in Ids |-> 0]
    /\ optimistic = [id \in Ids |-> {}]
    /\ formPending = FALSE
    /\ input = <<>>

Next ==
    \/ OtherAddTodo
    \/ OtherToggleTodo
    \/ OtherDeleteTodo
    \/ \E c \in CallIds : AddTodoInsert(c)
    \/ \E c \in CallIds : ToggleTodoFindFirst(c)
    \/ \E c \in CallIds : ToggleTodoUpdate(c)
    \/ \E c \in CallIds : DeleteTodoDelete(c)
    \/ \E c \in CallIds : Revalidate(c)
    \/ \E text \in Texts : TypeText(text)
    \/ \E text \in Texts : HandleSubmit(text)
    \/ \E id \in Ids : HandleToggle(id)
    \/ \E id \in Ids : HandleDelete(id)
    \/ \E c \in CallIds : Settle(c)
    \/ LoadPage

Spec == Init /\ [][Next]_vars

\* The database answers every statement it was sent, a server action runs on
\* when its await returns, and its answer reaches the view. Nothing makes a
\* user click or reload, or another client call.
ServerStep(c) ==
    \/ AddTodoInsert(c)
    \/ ToggleTodoFindFirst(c)
    \/ ToggleTodoUpdate(c)
    \/ DeleteTodoDelete(c)
    \/ Revalidate(c)

FairSpec ==
    /\ Spec
    /\ \A c \in CallIds : WF_vars(ServerStep(c)) /\ WF_vars(Settle(c))

\* ------------------------------------------------------------- addTodo
IsCall(c) == c \in 1..Len(calls)

\* C1: when addTodo's insert returns, the table is the table before plus
\* exactly one row, whose text is the trimmed argument (which is not blank),
\* whose completed is false and whose id is the serial's next value, which no
\* row has or had (every id in the table is below it); every result of the
\* list query holds that row once and every earlier row.
C1_Insert(c) ==
    (/\ IsCall(c)
     /\ calls[c].op = "addTodo"
     /\ calls[c].pc = "insert"
     /\ calls'[c].pc = "revalidate")
    => \E r \in store' :
          /\ r \notin store
          /\ store' = store \cup {r}
          /\ ~IsBlank(calls[c].text)
          /\ r.text = Trim(calls[c].text)
          /\ r.completed = FALSE
          /\ r.id \notin StoreIds
          /\ r.id = nextId
          /\ \A s \in FindManyResults' :
                /\ Cardinality({i \in 1..Len(s) : s[i] = r}) = 1
                /\ Len(s) = Cardinality(store) + 1
                /\ store \subseteq Range(s)

C1_AddTodoAddsOneItem ==
    /\ [][\A c \in CallIds : C1_Insert(c)]_vars
    /\ [](\A r \in store : r.id < nextId)

C1_Witness ==
    \E c \in 1..Len(calls) :
        /\ calls[c].op = "addTodo"
        /\ calls[c].pc = "done"
        /\ Trim(calls[c].text) # calls[c].text
        /\ \E r \in store : r.text = Trim(calls[c].text) /\ r.id = nextId - 1

\* C2: addTodo with an empty or blank text has thrown the validation error,
\* has issued no statement and has made no revalidatePath call, and entering
\* it leaves the table, the cache and the stale mark as they were.
C2_Rejected(c) ==
    (calls[c].op = "addTodo" /\ IsBlank(calls[c].text))
    => /\ calls[c].pc = "failed"
       /\ calls[c].err = "ValidationError"
       /\ calls[c].stmts = 0
       /\ calls[c].signals = 0

C2_Enter ==
    (/\ Len(calls') = Len(calls) + 1
     /\ calls'[Len(calls')].op = "addTodo"
     /\ IsBlank(calls'[Len(calls')].text))
    => /\ store' = store
       /\ cache' = cache
       /\ stale' = stale
       /\ calls'[Len(calls')].pc = "failed"

C2_BlankTextRejected ==
    /\ [](\A c \in 1..Len(calls) : C2_Rejected(c))
    /\ [][C2_Enter]_vars

C2_Witness ==
    \E c \in 1..Len(calls) :
        /\ calls[c].op = "addTodo"
        /\ calls[c].text = <<" ">>
        /\ calls[c].err = "ValidationError"

\* ---------------------------------------------------------- toggleTodo
\* C3: an update of toggleTodo that runs with no update of the row since the
\* call's findFirst negates the row's completed; and of two toggleTodo calls
\* of one item, each run with no other update in between and the second
\* started after the first wrote, the second leaves completed as the first
\* found it.
Uninterrupted(c) == calls[c].writeVer = calls[c].readVer + 1

C3_Update(c) ==
    (/\ IsCall(c)
     /\ calls[c].op = "toggleTodo"
     /\ calls[c].pc = "update"
     /\ calls'[c].pc = "revalidate"
     /\ ver[calls[c].id] = calls[c].readVer)
    => \A r \in store : r.id = calls[c].id =>
          \E q \in store' : /\ q.id = r.id
                            /\ q.completed = ~r.completed

C3_Pair(c1, c2) ==
    (/\ calls[c1].op = "toggleTodo"
     /\ calls[c2].op = "toggleTodo"
     /\ calls[c1].id = calls[c2].id
     /\ calls[c1].after # {}
     /\ calls[c2].after # {}
     /\ Uninterrupted(c1)
     /\ Uninterrupted(c2)
     /\ calls[c2].readVer = calls[c1].writeVer)
    => calls[c2].after = {r.completed : r \in calls[c1].todo}

C3_ToggleFlipsAndTwiceRestores ==
    /\ [][\A c \in CallIds : C3_Update(c)]_vars
    /\ [](\A c1 \in 1..Len(calls) : \A c2 \in 1..Len(calls) : C3_Pair(c1, c2))

C3_Witness ==
    \E c1 \in 1..Len(calls) : \E c2 \in 1..Len(calls) :
        /\ calls[c1].op = "toggleTodo"
        /\ calls[c2].op = "toggleTodo"
        /\ calls[c1].id = calls[c2].id
        /\ calls[c1].pc = "done"
        /\ calls[c2].pc = "done"
        /\ Uninterrupted(c1)
        /\ Uninterrupted(c2)
        /\ calls[c2].readVer = calls[c1].writeVer
        /\ calls[c1].after # calls[c2].after
        /\ \E r \in store : r.id = calls[c1].id /\ r \in calls[c1].todo

\* C4: when findFirst of toggleTodo returns and no row has the id, the call
\* throws (the not-found error, unless the statement itself was rejected) and
\* the table, the cache and the stale mark stay as they were; a call that
\* threw the not-found error has made no revalidatePath call and no update.
C4_FindFirst(c) ==
    (/\ IsCall(c)
     /\ calls[c].op = "toggleTodo"
     /\ calls[c].pc = "findFirst"
     /\ calls'[c].pc # "findFirst"
     /\ calls[c].id \notin StoreIds)
    => /\ calls'[c].pc = "failed"
       /\ calls'[c].err \in {"NotFoundError", "StorageError"}
       /\ store' = store
       /\ cache' = cache
       /\ stale' = stale

C4_NotFound(c) ==
    calls[c].err = "NotFoundError"
    => /\ calls[c].pc = "failed"
       /\ calls[c].signals = 0
       /\ calls[c].stmts = 1
       /\ calls[c].after = {}

C4_ToggleMissingFails ==
    /\ [][\A c \in CallIds : C4_FindFirst(c)]_vars
    /\ [](\A c \in 1..Len(calls) : C4_NotFound(c))

C4_Witness ==
    \E c \in 1..Len(calls) :
        /\ calls[c].op = "toggleTodo"
        /\ calls[c].err = "NotFoundError"
        /\ calls[c].id \notin StoreIds

\* ---------------------------------------------------------- deleteTodo
\* C5: when deleteTodo's delete returns, no row has the id and every other
\* row is as it was; if no row had the id the table is unchanged and the call
\* goes on to revalidatePath without an error; and once a deleteTodo(id) has
\* removed a row, no row has that id again and no result of the list query
\* holds it.
C5_Delete(c) ==
    (/\ IsCall(c)
     /\ calls[c].op = "deleteTodo"
     /\ calls[c].pc = "delete"
     /\ calls'[c].pc = "revalidate")
    => /\ calls[c].id \notin StoreIds'
       /\ store' = {r \in store : r.id # calls[c].id}
       /\ calls[c].id \notin StoreIds => store' = store
       /\ calls'[c].err = "none"

C5_Deleted(c) ==
    calls[c].op = "deleteTodo"
    => /\ calls[c].err \in {"none", "StorageError"}
       /\ calls[c].rowCount = 1
          => /\ calls[c].id \notin StoreIds
             /\ \A s \in FindManyResults : \A i \in 1..Len(s) : s[i].id # calls[c].id

C5_DeleteRemovesAndRepeats ==
    /\ [][\A c \in CallIds : C5_Delete(c)]_vars
    /\ [](\A c \in 1..Len(calls) : C5_Deleted(c))

C5_Witness ==
    \E c1 \in 1..Len(calls) : \E c2 \in 1..Len(calls) :
        /\ calls[c1].op = "deleteTodo"
        /\ calls[c2].op = "deleteTodo"
        /\ calls[c1].id = calls[c2].id
        /\ calls[c1].pc = "done"
        /\ calls[c2].pc = "done"
        /\ calls[c1].rowCount = 1
        /\ calls[c2].rowCount = 0
        /\ calls[c2].err = "none"
        /\ store # {}

\* ------------------------------------------------------------ TodoList
\* C6: every result of the list query is descending in createdAt and, among
\* rows of equal createdAt, descending in id.
DescCreatedAtThenId(s) ==
    \A i \in 1..Len(s) : \A j \in 1..Len(s) :
        i < j => \/ s[i].createdAt > s[j].createdAt
                 \/ s[i].createdAt = s[j].createdAt /\ s[i].id > s[j].id

C6_ListOrderedWithIdTieBreak == \A s \in FindManyResults : DescCreatedAtThenId(s)

\* ------------------------------------------------------------ TodoItem
\* The step in which the view learns that toggleTodo call c threw, the view
\* keeping its list and the item having no other action pending.
FailedToggleKnown(c) ==
    /\ IsCall(c)
    /\ calls[c].op = "toggleTodo"
    /\ calls[c].pc = "failed"
    /\ calls[c].awaiting
    /\ ~calls'[c].awaiting
    /\ rendered' = rendered
    /\ calls[c].id \in RenderedIds
    /\ inflight'[calls[c].id] = 0

\* C7, as claimed: when the view learns that a toggleTodo threw, the item
\* shows the todo.completed the view held when the toggle was triggered.
\* (Stated for the TodoItem that disables its controls, where one action per
\* item is pending.)
C7_RevertsToPreToggleValue ==
    [][\A c \in CallIds :
          (FailedToggleKnown(c) /\ variant = "useTransition")
          => OptimisticCompleted(calls[c].id)' \in calls[c].props]_vars

\* C7, amended: when the view learns that a toggleTodo threw, the item drops
\* the optimistic value and shows the todo.completed the view holds, which is
\* the one it held when the toggle was triggered unless the view was given a
\* new list in between; an item with no pending action shows no optimistic
\* value; and the view does learn of every call that threw.
C7_Known(c) ==
    FailedToggleKnown(c)
    => /\ optimistic'[calls[c].id] = {}
       /\ OptimisticCompleted(calls[c].id)' = RenderedTodo(calls[c].id).completed
       /\ ~calls[c].refreshed => OptimisticCompleted(calls[c].id)' \in calls[c].props

C7_NoPendingNoOptimistic == \A id \in Ids : inflight[id] = 0 => optimistic[id] = {}

C7_FailedToggleReverts ==
    /\ [][\A c \in CallIds : C7_Known(c)]_vars
    /\ []C7_NoPendingNoOptimistic
    /\ \A c \in CallIds :
          (IsCall(c) /\ calls[c].awaiting /\ calls[c].pc = "failed")
          ~> (IsCall(c) /\ ~calls[c].awaiting)

C7_Witness ==
    \E c \in 1..Len(calls) :
        /\ calls[c].op = "toggleTodo"
        /\ calls[c].pc = "failed"
        /\ calls[c].err = "StorageError"
        /\ calls[c].props # {}
        /\ ~calls[c].awaiting
        /\ ~calls[c].refreshed
        /\ calls[c].id \in RenderedIds
        /\ inflight[calls[c].id] = 0
        /\ OptimisticCompleted(calls[c].id) \in calls[c].props

\* ---------------------------------------------------------- toggleTodo
\* C8: two toggleTodo calls of one item whose findFirst ran with no update of
\* the row in between read the same row and write the same value; when theirs
\* are the only two updates since, completed is the negation of what both
\* read: flipped once by two toggles.
C8_Pair(c1, c2) ==
    (/\ c1 # c2
     /\ calls[c1].op = "toggleTodo"
     /\ calls[c2].op = "toggleTodo"
     /\ calls[c1].id = calls[c2].id
     /\ calls[c1].after # {}
     /\ calls[c2].after # {}
     /\ calls[c1].readVer = calls[c2].readVer)
    => /\ calls[c1].todo = calls[c2].todo
       /\ calls[c1].after = calls[c2].after
       /\ calls[c1].after = {~r.completed : r \in calls[c1].todo}
       /\ ver[calls[c1].id] = calls[c1].readVer + 2
          => \A r \in store : r.id = calls[c1].id => {r.completed} = calls[c1].after

C8_ConcurrentTogglesLoseUpdate ==
    \A c1 \in 1..Len(calls) : \A c2 \in 1..Len(calls) : C8_Pair(c1, c2)

C8_Witness ==
    \E c1 \in 1..Len(calls) : \E c2 \in 1..Len(calls) :
        /\ c1 # c2
        /\ calls[c1].op = "toggleTodo"
        /\ calls[c2].op = "toggleTodo"
        /\ calls[c1].id = calls[c2].id
        /\ calls[c1].pc = "done"
        /\ calls[c2].pc = "done"
        /\ calls[c1].readVer = calls[c2].readVer
        /\ \E r \in calls[c1].todo : ~r.completed
        /\ \E r \in calls[c2].todo : ~r.completed
        /\ calls[c1].after = {TRUE}
        /\ calls[c2].after = {TRUE}
        /\ \E r \in store : r.id = calls[c1].id /\ r.completed

\* ------------------------------------------------------------ TodoItem
\* C9: of one view, at most one call per item and action is unanswered.
Unanswered(op, id) ==
    {c \in 1..Len(calls) : calls[c].awaiting /\ calls[c].op = op /\ calls[c].id = id}

C9_OneInFlightPerItemAction ==
    \A id \in Ids : \A op \in {"toggleTodo", "deleteTodo"} :
        Cardinality(Unanswered(op, id)) <= 1

\* ------------------------------------------------------ revalidatePath
\* C10: a call that returned has made its one revalidatePath call, after its
\* statement; a call that has not returned has made none. With no
\* revalidatePath call outstanding and the cache not marked stale, the cache
\* is a result of the list query on the table as it is. A read of the list
\* view made when the cache is marked stale, or when no revalidatePath call is
\* outstanding, gives a result of the list query on the table as it is. Every
\* call of the view is answered, and the answer of a call that returned gives
\* the view such a list.
Unsignalled == {c \in 1..Len(calls) : calls[c].pc = "revalidate"}

C10_Signalled(c) ==
    /\ calls[c].pc = "done" => calls[c].signals = 1 /\ calls[c].stmts >= 1
    /\ calls[c].pc # "done" => calls[c].signals = 0

C10_CacheFresh == (~stale /\ Unsignalled = {}) => cache \in FindManyResults

C10_Read ==
    (/\ rendered' # rendered \/ cache' # cache \/ (stale /\ ~stale')
     /\ stale \/ Unsignalled = {})
    => rendered' \in FindManyResults'

C10_Answered(c) ==
    /\ IsCall(c)
    /\ ~calls[c].awaiting
    /\ (calls[c].pc = "done" /\ Unsignalled = {}) => rendered \in FindManyResults

C11_TextNonBlankIdsUnique ==
    /\ \A r \in store : r.text # <<>> /\ ~IsBlank(r.text)
    /\ \A r1 \in store : \A r2 \in store : r1.id = r2.id => r1 = r2

C11_Witness ==
    /\ Cardinality(store) >= 2
    /\ \E c1 \in 1..Len(calls) : \E c2 \in 1..Len(calls) :
          /\ calls[c1].op = "deleteTodo"
          /\ calls[c1].rowCount = 1
          /\ calls[c2].op = "addTodo"
          /\ calls[c2].pc = "done"
          /\ calls[c2].text # Trim(calls[c2].text)
          /\ \E r \in store : r.id = nextId - 1 /\ r.text = Trim(calls[c2].text)

\* ------------------------------------------------------ actions/todos.ts
\* C12, as claimed: a call of addTodo, toggleTodo or deleteTodo issues one
\* statement against the table: never more, and one when it has returned.
C12_OneStatementPerCall ==
    \A c \in 1..Len(calls) :
        /\ calls[c].stmts <= 1
        /\ calls[c].pc = "done" => calls[c].stmts = 1

\* C12, amended: addTodo issues one statement (the insert), or none when it
\* throws the validation error; deleteTodo issues one (the delete);
\* toggleTodo issues findFirst and then, when findFirst gave a row, the
\* update: two statements when it returns, one when it throws at findFirst.
C12_Statements(c) ==
    /\ calls[c].op = "addTodo"
       => calls[c].stmts = IF IsBlank(calls[c].text) THEN 0 ELSE 1
    /\ calls[c].op = "deleteTodo" => calls[c].stmts = 1
    /\ calls[c].op = "toggleTodo"
       => /\ calls[c].stmts \in {1, 2}
          /\ calls[c].stmts = 2 <=> calls[c].todo # {}
          /\ calls[c].pc = "findFirst" => calls[c].stmts = 1
          /\ calls[c].pc \in {"update", "revalidate", "done"} => calls[c].stmts = 2
          /\ calls[c].err = "NotFoundError" => calls[c].stmts = 1

C12_StatementsPerCall == \A c \in 1..Len(calls) : C12_Statements(c)

C12_Witness ==
    \E c1 \in 1..Len(calls) : \E c2 \in 1..Len(calls) :
        /\ calls[c1].op = "toggleTodo"
        /\ calls[c1].pc = "done"
        /\ calls[c1].stmts = 2
        /\ calls[c2].op = "deleteTodo"
        /\ calls[c2].pc = "done"
        /\ calls[c2].stmts = 1

\* ------------------------------------------------------------ TodoItem
\* The step in which the view is given the answer of toggleTodo call c, which
\* returned, the item having no other action pending after it. The page of
\* the answer is rendered after the call's revalidatePath: by this step when
\* the cache is marked stale, else by the answer of another call before it.
ToggleAnswered(c) ==
    /\ IsCall(c)
    /\ calls[c].op = "toggleTodo"
    /\ calls[c].pc = "done"
    /\ calls[c].awaiting
    /\ ~calls'[c].awaiting
    /\ inflight'[calls[c].id] = 0

\* C13: when the view is given the answer of a toggleTodo that returned, the
\* item shows no optimistic value but the completed of the list it was given,
\* and that list was read from the table as it is (no other call being
\* between its statement and its revalidatePath): the item shows the row's
\* completed, whatever the optimistic value was, and an item whose row is
\* gone is not shown. Every toggle the view triggered is answered and the item
\* comes to have no pending action and no optimistic value.
C13_Answer(c) ==
    ToggleAnswered(c)
    => /\ optimistic'[calls[c].id] = {}
       /\ (stale \/ Unsignalled = {})
          => /\ \A r \in store' : r.id = calls[c].id
                   => /\ r.id \in RenderedIds'
                      /\ OptimisticCompleted(r.id)' = r.completed
             /\ calls[c].id \notin StoreIds' => calls[c].id \notin RenderedIds'

C13_ToggleSettlesToStoreValue ==
    /\ [][\A c \in CallIds : C13_Answer(c)]_vars
    /\ \A c \in CallIds :
          (IsCall(c) /\ calls[c].op = "toggleTodo" /\ calls[c].awaiting)
          ~> (/\ IsCall(c)
              /\ calls[c].op = "toggleTodo"
              /\ ~calls[c].awaiting
              /\ inflight[calls[c].id] = 0
              /\ optimistic[calls[c].id] = {})

\* the view's toggle and another client's met on one row: the row holds, and
\* the item shows, the value from before the click, not the optimistic one
C13_Witness ==
    \E c1 \in 1..Len(calls) : \E c2 \in 1..Len(calls) :
        /\ calls[c1].op = "toggleTodo"
        /\ calls[c1].pc = "done"
        /\ calls[c1].props # {}
        /\ ~calls[c1].awaiting
        /\ ~calls[c1].refreshed
        /\ calls[c2].op = "toggleTodo"
        /\ calls[c2].pc = "done"
        /\ calls[c2].props = {}
        /\ calls[c2].id = calls[c1].id
        /\ inflight[calls[c1].id] = 0
        /\ optimistic[calls[c1].id] = {}
        /\ calls[c1].id \in RenderedIds
        /\ \E r \in store : /\ r.id = calls[c1].id
                             /\ {r.completed} = calls[c1].props
                             /\ OptimisticCompleted(r.id) = r.completed

\* C14: while a deleteTodo the view triggered is not yet answered, the view
\* does not show the item.
C14_DeleteHidesItemAtOnce ==
    \A c \in 1..Len(calls) :
        (calls[c].op = "deleteTodo" /\ calls[c].awaiting)
        => calls[c].id \notin RenderedIds

\* --------------------------------------------------------- AddTodoForm
\* The step in which the form is submitted: an addTodo call of the view is
\* entered.
Submitted ==
    /\ Len(calls') = Len(calls) + 1
    /\ calls'[Len(calls')].op = "addTodo"
    /\ calls'[Len(calls')].awaiting

\* The step in which the view learns that addTodo call c, made by the form,
\* threw.
FailedAddKnown(c) ==
    /\ IsCall(c)
    /\ calls[c].op = "addTodo"
    /\ calls[c].pc = "failed"
    /\ calls[c].awaiting
    /\ ~calls'[c].awaiting

\* C15: a submission of the form carries the text of the input field, which
\* is not blank, and leaves the field empty in that same step, before addTodo
\* has issued its statement; the field stays empty while the call is pending
\* and is empty when the view learns that the call threw. A call that threw
\* stays so and has added no row: a row appears only in the step in which an
\* insert returns, and the answer of a call that threw gives the view no new
\* list.
C15_Submit ==
    Submitted
    => /\ ~IsBlank(input)
       /\ calls'[Len(calls')].text = input
       /\ input' = <<>>
       /\ calls'[Len(calls')].pc = "insert"
       /\ store' = store

C15_Failed(c) ==
    /\ FailedAddKnown(c) => input' = <<>> /\ (rendered' # rendered => calls'[c].refreshed)
    /\ (IsCall(c) /\ calls[c].pc = "failed")
       => calls'[c].pc = "failed" /\ calls'[c].rowCount = 0

C15_RowsAppearByInsert ==
    (StoreIds' \ StoreIds # {})
    => \E c \in 1..Len(calls) :
          /\ calls[c].op = "addTodo"
          /\ calls[c].pc = "insert"
          /\ calls'[c].pc = "revalidate"
          /\ Cardinality(store') = Cardinality(store) + 1

C15_InputClearedNotRestored ==
    /\ [][C15_Submit]_vars
    /\ [](formPending => input = <<>>)
    /\ [][\A c \in CallIds : C15_Failed(c)]_vars
    /\ [][C15_RowsAppearByInsert]_vars

C15_Witness ==
    \E c \in 1..Len(calls) :
        /\ calls[c].op = "addTodo"
        /\ calls[c].awaiting
        /\ calls[c].pc = "failed"
        /\ calls[c].err = "StorageError"
        /\ ~IsBlank(calls[c].text)
        /\ formPending
        /\ input = <<>>
        /\ Len(rendered) = Cardinality(store)

\* ------------------------------------------- toggleTodo and deleteTodo
\* C16: a step of a toggleTodo call keeps the rows of the table and changes
\* at most the completed of the row with the call's id; a step of a
\* deleteTodo call removes at most the row with the call's id and changes no
\* row; no step at all changes the text or the createdAt of a row. When a
\* toggleTodo or deleteTodo of one item and one of another item have both
\* returned and no other call changed a row, however their statements
\* interleaved, the table is the one of the start with each call's effect
\* applied once.
C16_Toggle(c) ==
    (/\ IsCall(c)
     /\ calls[c].op = "toggleTodo"
     /\ calls'[c].pc # calls[c].pc)
    => /\ StoreIds' = StoreIds
       /\ Cardinality(store') = Cardinality(store)
       /\ \A r \in store : \E q \in store' :
             /\ q.id = r.id
             /\ q.text = r.text
             /\ q.createdAt = r.createdAt
             /\ r.id # calls[c].id => q = r

C16_Delete(c) ==
    (/\ IsCall(c)
     /\ calls[c].op = "deleteTodo"
     /\ calls'[c].pc # calls[c].pc)
    => /\ store' \subseteq store
       /\ \A r \in store \ store' : r.id = calls[c].id

C16_Immutable ==
    \A r \in store : \A q \in store' :
        q.id = r.id => q.text = r.text /\ q.createdAt = r.createdAt

\* the table a behaviour with no insert started from
StartStore == IF nextId = 1 THEN {} ELSE InitRows

EffectOf(c, rows) ==
    IF calls[c].op = "toggleTodo"
    THEN {IF r.id = calls[c].id THEN [r EXCEPT !.completed = ~r.completed] ELSE r :
             r \in rows}
    ELSE {r \in rows : r.id # calls[c].id}

C16_Final(c1, c2) ==
    (/\ calls[c1].op \in {"toggleTodo", "deleteTodo"}
     /\ calls[c2].op \in {"toggleTodo", "deleteTodo"}
     /\ calls[c1].id # calls[c2].id
     /\ calls[c1].pc = "done"
     /\ calls[c2].pc = "done"
     /\ \A c \in 1..Len(calls) : c \notin {c1, c2} => calls[c].rowCount = 0)
    => /\ store = EffectOf(c2, EffectOf(c1, StartStore))
       /\ store = EffectOf(c1, EffectOf(c2, StartStore))

C16_OnlyOwnItemChanged ==
    /\ [][\A c \in CallIds : C16_Toggle(c) /\ C16_Delete(c)]_vars
    /\ [][C16_Immutable]_vars
    /\ [](\A c1 \in 1..Len(calls) : \A c2 \in 1..Len(calls) : C16_Final(c1, c2))

C16_Witness ==
    \E c1 \in 1..Len(calls) : \E c2 \in 1..Len(calls) :
        /\ calls[c1].op = "toggleTodo"
        /\ calls[c2].op = "deleteTodo"
        /\ calls[c1].id # calls[c2].id
        /\ calls[c1].pc = "done"
        /\ calls[c2].pc = "done"
        /\ calls[c2].rowCount = 1
        /\ Cardinality(store) = 1
        /\ \E r \in store : /\ r.id = calls[c1].id
                             /\ {r.completed} = calls[c1].after
                             /\ r \notin InitRows

\* C17: an id the serial has handed out and that no row has is had by no row
\* after any step: a row that is gone stays gone. An update of toggleTodo that
\* finds no row with the id, its findFirst having found one, leaves the table
\* as it is and the call goes on without an error. So once a deleteTodo(id)
\* has removed the row, no row has the id, whatever a toggleTodo(id) read
\* before and writes after.
C17_GoneStaysGone ==
    \A id \in Ids : (id < nextId /\ id \notin StoreIds) => id \notin StoreIds'

C17_LateUpdate(c) ==
    (/\ IsCall(c)
     /\ calls[c].op = "toggleTodo"
     /\ calls[c].pc = "update"
     /\ calls'[c].pc = "revalidate"
     /\ calls[c].id \notin StoreIds)
    => /\ calls[c].todo # {}
       /\ store' = store
       /\ calls'[c].rowCount = 0
       /\ calls'[c].err = "none"

C17_Pair(d, t) ==
    (/\ calls[d].op = "deleteTodo"
     /\ calls[d].rowCount = 1
     /\ calls[t].op = "toggleTodo"
     /\ calls[t].id = calls[d].id)
    => calls[d].id \notin StoreIds

C17_ToggleNeverRecreates ==
    /\ [][C17_GoneStaysGone]_vars
    /\ [][\A c \in CallIds : C17_LateUpdate(c)]_vars
    /\ [](\A d \in 1..Len(calls) : \A t \in 1..Len(calls) : C17_Pair(d, t))

\* toggleTodo read the row, deleteTodo removed it, toggleTodo's update ran
C17_Witness ==
    \E d \in 1..Len(calls) : \E t \in 1..Len(calls) :
        /\ calls[d].op = "deleteTodo"
        /\ calls[d].pc = "done"
        /\ calls[d].rowCount = 1
        /\ calls[t].op = "toggleTodo"
        /\ calls[t].id = calls[d].id
        /\ calls[t].todo # {}
        /\ calls[t].pc = "done"
        /\ calls[t].rowCount = 0
        /\ calls[t].id \notin StoreIds

====
